---- MODULE Spec2Model ----
(***************************************************************************)
(* Model of the launchpi daemon's Launchpad Mini Mk3 controller            *)
(* (daemon/src/controllers/launchpad_mini_mk3.rs): the broadcast event     *)
(* bus, the Input Loop spawned by initialize(), the output calls clear()   *)
(* and set_button_color_multi(), and ScriptRunner::run with its restart on *)
(* lag.                                                                    *)
(*                                                                         *)
(* Specifications:                                                         *)
(*   SpecBus     initialize() and the Input Loop, an outside caller of the *)
(*               output calls, two receive-ends, device failures           *)
(*   SpecRun     the same Controller with ScriptRunner::run and the        *)
(*               script's own output calls                                 *)
(*   SpecClosed  SpecRun plus the drop of the broadcast Sender             *)
(*   SpecOut     two outside callers of the output calls at once, device   *)
(*               failures                                                  *)
(*   SpecXlate   the button translation, both directions, over every      *)
(*               button the device can report                              *)
(***************************************************************************)
EXTENDS Integers, Sequences, FiniteSets, TLC

\* ---------------------------------------------------------------- bounds
\* Number of events the broadcast ring retains.  guess() builds the channel
\* with channel(10); the ring is scaled down so that lag is reached in a few
\* publishes.
Capacity == 2
\* Operations that may publish (output calls started, raw messages read).
MaxPublish == 3
\* Device I/O failures injected.
MaxFaults == 1
\* Largest native grid coordinate of the device (an 8x8 grid).
GridMax == 7

\* The largest u8 (the upper end of the pattern 8..=u8::MAX).
U8Max == 255

\* ------------------------------------------------------------ data model
\* launchy::mini_mk3::Button
GridButton(x, y) == [kind |-> "Grid", x |-> x, y |-> y, index |-> 0]
ControlButton(i) == [kind |-> "Control", x |-> 0, y |-> 0, index |-> i]

\* launchy::mini_mk3::Message; every kind other than Press/Release is "Other"
RawMessage(kind, button) == [kind |-> kind, button |-> button]

\* ControllerEvent, one record shape for all variants
Ev(k, x, y, u) == [k |-> k, x |-> x, y |-> y, u |-> u]
Press(x, y) == Ev("Press", x, y, <<>>)
Release(x, y) == Ev("Release", x, y, <<>>)
ClearBoard == Ev("ClearBoard", 0, 0, <<>>)
LightUpdate(u) == Ev("LightUpdate", 0, 0, u)

\* ------------------------------------------------- coordinate translation
\* The control-button arm with the offset of the grid arm (index - 8).
NormalizeControlShifted(index) ==
    IF index <= 7 THEN <<index, 0>> ELSE <<8, index - 8>>

\* The control-button arm without its 0..=7 case: the u8 subtraction
\* index - 7 applied to every index (it leaves the type's range below 7).
NormalizeControlUnguarded(index) == <<8, index - 7>>

\* Input Loop, control button: 0..=7 => (index, 0); 8..=u8::MAX => (8, index - 7)
NormalizeControl(index) ==
    IF index <= 7 THEN <<index, 0>> ELSE <<8, index - 7>>

\* The grid arm without the row shift: row 0 is not kept for control buttons.
NormalizeGridUnshifted(x, y) == <<x, y>>

\* Input Loop, grid button: (x, y) => (x, y + 1).  y stays far below u8::MAX
\* for every coordinate of the device, so the u8 addition does not overflow.
NormalizeGrid(x, y) == <<x, y + 1>>

Normalize(button) ==
    IF button.kind = "Grid"
    THEN NormalizeGrid(button.x, button.y)
    ELSE NormalizeControl(button.index)

\* An Input Loop that publishes a Press for a raw message of any other kind
\* instead of discarding it.
LoopEventsEveryKind(msg) ==
    IF msg.kind = "Release"
    THEN <<Release(Normalize(msg.button)[1], Normalize(msg.button)[2])>>
    ELSE <<Press(Normalize(msg.button)[1], Normalize(msg.button)[2])>>

\* The event the Input Loop publishes for a raw message: one for a Press or a
\* Release, none for any other kind (the `_ => {}` arm).
LoopEvents(msg) ==
    IF msg.kind = "Press"
    THEN <<Press(Normalize(msg.button)[1], Normalize(msg.button)[2])>>
    ELSE IF msg.kind = "Release"
    THEN <<Release(Normalize(msg.button)[1], Normalize(msg.button)[2])>>
    ELSE <<>>

\* Output direction as in the commented-out light() call: no row shift.
ToButtonUnshifted(x, y) == GridButton(x, y)

\* set_button_color_multi: y == 0 => ControlButton{index: x}, else
\* GridButton{x, y: y - 1}
ToButton(x, y) ==
    IF y = 0 THEN ControlButton(x) ELSE GridButton(x, y - 1)

\* set_button_color_multi: colour index => PaletteColor
Palette(color) ==
    CASE color = 0 -> "BLACK"
      [] color = 1 -> "WHITE"
      [] color = 2 -> "RED"
      [] color = 3 -> "YELLOW"
      [] color = 4 -> "BLUE"
      [] color = 5 -> "MAGENTA"
      [] color = 6 -> "BROWN"
      [] color = 7 -> "CYAN"
      [] color = 8 -> "GREEN"
      [] OTHER -> "BLACK"

\* ----------------------------------------------------------------- state
VARIABLES
    log,            \* every event sent on the broadcast channel, in send order
    closed,         \* TRUE once the broadcast Sender has been dropped
    subs,           \* receive-ends handed out by get_event_receiver: cursor
    seen,           \* what each of them has yielded so far
    midi_in,        \* holder of the midi_in mutex
    midi_out,       \* holder of the midi_out mutex
    event_sender,   \* holder of the event_sender mutex
    dev,            \* operations applied to the output device, in order
    out,            \* per caller: the output call it is executing
    main_pc,        \* the task that calls initialize()
    in_pc, in_msg,  \* the Input Loop task and the raw message it holds
    run_pc,         \* ScriptRunner::run
    run_rx,         \* the receive-end of the innermost run() frame
    frames,         \* run() frames entered (1 + nested restarts)
    rlog,           \* run()'s history: receive results and script calls
    budget, faults, \* publishing operations / device failures still to come
    xl_pc, xl_msg, xl_ev, xl_btn    \* translation round trip

chanVars == <<log, closed, subs, seen>>
lockVars == <<midi_in, midi_out, event_sender>>
outVars == <<dev, out>>
loopVars == <<main_pc, in_pc, in_msg>>
runVars == <<run_pc, run_rx, frames, rlog>>
envVars == <<budget, faults>>
xlVars == <<xl_pc, xl_msg, xl_ev, xl_btn>>
sysVars == <<chanVars, lockVars, outVars, loopVars, runVars, envVars>>
vars == <<sysVars, xlVars>>

\* The receive-ends callers other than the Script Runner may take.
SubIds == 1..2
Callers == {"main", "api", "api2", "script"}

NoEv == Ev("None", 0, 0, <<>>)
NoMsg == RawMessage("None", GridButton(0, 0))
IdleCall == [op |-> "none", pc |-> "idle", upd |-> <<>>, i |-> 0,
             pub |-> <<>>, wr |-> <<>>]
NoSub == [live |-> FALSE, next |-> 0, created |-> 0]

\* The state after guess(): an empty channel, whose only receive-end is the
\* Controller's own event_receiver; no task started.
InitSys ==
    /\ log = <<>>
    /\ closed = FALSE
    /\ subs = [s \in SubIds |-> NoSub]
    /\ seen = [s \in SubIds |-> <<>>]
    /\ midi_in = "none"
    /\ midi_out = "none"
    /\ event_sender = "none"
    /\ dev = <<>>
    /\ out = [t \in Callers |-> IdleCall]
    /\ main_pc = "idle"
    /\ in_pc = "idle"
    /\ in_msg = NoMsg
    /\ run_pc = "off"
    /\ run_rx = NoSub
    /\ frames = 0
    /\ rlog = <<>>
    /\ budget = MaxPublish

\* ------------------------------------------------------ broadcast channel
\* One entry of a receive-end's history: a received event (the pos-th event
\* sent on the channel), a lag signal (n events skipped, cursor moved to pos
\* when tail events had been sent), or a script call made by run().
Entry(t, e, n, pos, tail) == [t |-> t, e |-> e, n |-> n, pos |-> pos, tail |-> tail]
Recv(e, pos) == Entry("recv", e, 0, pos, 0)
Lag(n, pos, tail) == Entry("lag", NoEv, n, pos, tail)
ScriptCall(name, x, y) == Entry("call", Ev(name, x, y, <<>>), 0, 0, 0)

\* A Controller that does not keep its own receive-end: only the receive-ends
\* handed out count.
RxCountSubscribersOnly == Cardinality({s \in SubIds : subs[s].live}) + frames

\* Receive-ends alive: the Controller's own event_receiver (never consumed,
\* never dropped), those handed out, and one per run() frame.
RxCount == 1 + Cardinality({s \in SubIds : subs[s].live}) + frames

\* A sender that waits for the slowest receive-end (a bounded queue with
\* back-pressure); the Controller's own receive-end never moves from 0.
CanSendBackPressure == Len(log) < Capacity

\* broadcast::Sender::send never waits for a receive-end: the oldest retained
\* event is overwritten.
CanSend == TRUE

\* A receive-end that starts at the oldest event the channel still retains
\* (a replaying subscription).
ResubscribeAtOldest == IF Len(log) > Capacity THEN Len(log) - Capacity ELSE 0

\* Receiver::resubscribe: the new receive-end starts at the current tail and
\* yields only events sent after this call.
Resubscribe == Len(log)

\* A receive-end that yields only the newest event (a watch-style channel).
TryRecvLatest(next) ==
    IF next < Len(log)
    THEN [r |-> "Ok", e |-> log[Len(log)], n |-> 0, next |-> Len(log)]
    ELSE [r |-> "Empty", e |-> NoEv, n |-> 0, next |-> next]

\* A receive-end that reports Closed as soon as it has nothing to read,
\* whether or not the Sender still exists.
TryRecvClosedWhenDrained(next) ==
    IF next < Len(log) - Capacity
    THEN [r |-> "Lagged", e |-> NoEv, n |-> (Len(log) - Capacity) - next,
          next |-> Len(log) - Capacity]
    ELSE IF next < Len(log)
    THEN [r |-> "Ok", e |-> log[next + 1], n |-> 0, next |-> next + 1]
    ELSE [r |-> "Closed", e |-> NoEv, n |-> 0, next |-> next]

\* Receiver::try_recv for a receive-end whose cursor is `next`.
TryRecv(next) ==
    IF next < Len(log) - Capacity
    THEN [r |-> "Lagged", e |-> NoEv, n |-> (Len(log) - Capacity) - next,
          next |-> Len(log) - Capacity]
    ELSE IF next < Len(log)
    THEN [r |-> "Ok", e |-> log[next + 1], n |-> 0, next |-> next + 1]
    ELSE IF closed
    THEN [r |-> "Closed", e |-> NoEv, n |-> 0, next |-> next]
    ELSE [r |-> "Empty", e |-> NoEv, n |-> 0, next |-> next]

\* ----------------------------------------------------------- output calls
\* A mutex is "none" (free), the name of the task holding it, or "poisoned"
\* (its holder panicked); lock().unwrap() panics on a poisoned mutex.
Locked(m) == m \notin {"none", "poisoned"}

\* One LightUpdate per update of the list instead of one for the call.
OutEventsPerUpdate(op, upd) ==
    IF op = "clear" THEN <<ClearBoard>>
    ELSE [k \in 1..Len(upd) |-> LightUpdate(<<upd[k]>>)]

\* What an output call publishes: ClearBoard for clear(), one LightUpdate
\* carrying the whole list for set_button_color_multi.
OutEvents(op, upd) ==
    IF op = "clear" THEN <<ClearBoard>> ELSE <<LightUpdate(upd)>>

\* The (i+1)-th device write of set_button_color_multi(upd).
LightOp(upd, i) ==
    [op |-> "light", button |-> ToButton(upd[i + 1][1], upd[i + 1][2]),
     color |-> Palette(upd[i + 1][3])]

ClearOp == [op |-> "clear", button |-> GridButton(0, 0), color |-> "BLACK"]

\* Entry of clear() / set_button_color_multi(upd) by caller t, who is not
\* inside a call ("ok" and "err" are a finished call whose result stands).
Call(t, op, upd) ==
    /\ ~closed
    /\ out[t].pc \in {"idle", "ok", "err"}
    /\ budget > 0
    /\ budget' = budget - 1
    /\ out' = [out EXCEPT ![t] = [op |-> op, pc |-> "lock_out", upd |-> upd,
                                  i |-> 0, pub |-> <<>>, wr |-> <<>>]]

\* A midi_out lock that admits a caller while another one holds it.
LockMidiOutShared(t) ==
    /\ out[t].pc = "lock_out"
    /\ IF midi_out = "poisoned"
       THEN /\ out' = [out EXCEPT ![t].pc = "panic"]
            /\ UNCHANGED midi_out
       ELSE /\ midi_out' = t
            /\ out' = [out EXCEPT ![t].pc =
                          IF out[t].op = "clear" THEN "io" ELSE "lock_snd"]
    /\ UNCHANGED <<chanVars, midi_in, event_sender, dev, loopVars, runVars,
                   envVars, xlVars>>

\* self.midi_out.lock().unwrap()
LockMidiOut(t) ==
    /\ out[t].pc = "lock_out"
    /\ ~Locked(midi_out)
    /\ IF midi_out = "poisoned"
       THEN /\ out' = [out EXCEPT ![t].pc = "panic"]
            /\ UNCHANGED midi_out
       ELSE /\ midi_out' = t
            /\ out' = [out EXCEPT ![t].pc =
                          IF out[t].op = "clear" THEN "io" ELSE "lock_snd"]
    /\ UNCHANGED <<chanVars, midi_in, event_sender, dev, loopVars, runVars,
                   envVars, xlVars>>

\* clear(): midi_out.clear()? -- the device write succeeds, or fails and the
\* error is returned (the guard is dropped on the way out).
DeviceClear(t) ==
    /\ out[t].pc = "io"
    /\ \E ok \in BOOLEAN :
         IF ok
         THEN /\ dev' = Append(dev, ClearOp)
              /\ out' = [out EXCEPT ![t].pc = "lock_snd",
                                    ![t].wr = Append(@, ClearOp)]
              /\ UNCHANGED <<midi_out, faults>>
         ELSE /\ faults > 0
              /\ faults' = faults - 1
              /\ midi_out' = "none"
              /\ out' = [out EXCEPT ![t].pc = "err"]
              /\ UNCHANGED dev
    /\ UNCHANGED <<chanVars, midi_in, event_sender, loopVars, runVars,
                   budget, xlVars>>

\* self.event_sender.lock().unwrap()
LockSender(t) ==
    /\ out[t].pc = "lock_snd"
    /\ ~Locked(event_sender)
    /\ IF event_sender = "poisoned"
       THEN /\ out' = [out EXCEPT ![t].pc = "panic"]
            /\ midi_out' = "poisoned"
            /\ UNCHANGED event_sender
       ELSE /\ event_sender' = t
            /\ out' = [out EXCEPT ![t].pc = "send"]
            /\ UNCHANGED midi_out
    /\ UNCHANGED <<chanVars, midi_in, dev, loopVars, runVars, envVars, xlVars>>

\* sender.send(..).unwrap(); drop(sender); clear() then returns Ok, and
\* set_button_color_multi goes on to its device writes.  send fails only
\* when no receive-end exists, and unwrap then panics with both guards held.
Publish(t) ==
    /\ out[t].pc = "send"
    /\ CanSend
    /\ IF RxCount = 0
       THEN /\ out' = [out EXCEPT ![t].pc = "panic"]
            /\ event_sender' = "poisoned"
            /\ midi_out' = "poisoned"
            /\ UNCHANGED log
       ELSE /\ log' = log \o OutEvents(out[t].op, out[t].upd)
            /\ event_sender' = "none"
            /\ IF out[t].op = "clear" \/ out[t].upd = <<>>
               THEN /\ out' = [out EXCEPT ![t].pc = "ok",
                                  ![t].pub = @ \o OutEvents(out[t].op, out[t].upd)]
                    /\ midi_out' = "none"
               ELSE /\ out' = [out EXCEPT ![t].pc = "light",
                                  ![t].pub = @ \o OutEvents(out[t].op, out[t].upd)]
                    /\ UNCHANGED midi_out
    /\ UNCHANGED <<closed, subs, seen, midi_in, dev, loopVars, runVars,
                   envVars, xlVars>>

\* A device write whose failure returns the error without dropping the
\* midi_out guard.
LightKeepsLockOnError(t) ==
    /\ out[t].pc = "light"
    /\ \E ok \in BOOLEAN :
         IF ok
         THEN /\ dev' = Append(dev, LightOp(out[t].upd, out[t].i))
              /\ out' = [out EXCEPT
                            ![t].wr = Append(@, LightOp(out[t].upd, out[t].i)),
                            ![t].i = @ + 1,
                            ![t].pc = IF out[t].i + 1 = Len(out[t].upd)
                                      THEN "ok" ELSE "light"]
              /\ midi_out' = IF out[t].i + 1 = Len(out[t].upd)
                             THEN "none" ELSE midi_out
              /\ UNCHANGED faults
         ELSE /\ faults > 0
              /\ faults' = faults - 1
              /\ out' = [out EXCEPT ![t].pc = "err"]
              /\ UNCHANGED <<dev, midi_out>>
    /\ UNCHANGED <<chanVars, midi_in, event_sender, loopVars, runVars,
                   budget, xlVars>>

\* One turn of `for (x, y, color) in updates`: midi_out.light(button, color)?
\* After the last update the call returns Ok; a failed write returns the
\* error at once.  Either way the midi_out guard is dropped.
Light(t) ==
    /\ out[t].pc = "light"
    /\ \E ok \in BOOLEAN :
         IF ok
         THEN /\ dev' = Append(dev, LightOp(out[t].upd, out[t].i))
              /\ out' = [out EXCEPT
                            ![t].wr = Append(@, LightOp(out[t].upd, out[t].i)),
                            ![t].i = @ + 1,
                            ![t].pc = IF out[t].i + 1 = Len(out[t].upd)
                                      THEN "ok" ELSE "light"]
              /\ midi_out' = IF out[t].i + 1 = Len(out[t].upd)
                             THEN "none" ELSE midi_out
              /\ UNCHANGED faults
         ELSE /\ faults > 0
              /\ faults' = faults - 1
              /\ midi_out' = "none"
              /\ out' = [out EXCEPT ![t].pc = "err"]
              /\ UNCHANGED dev
    /\ UNCHANGED <<chanVars, midi_in, event_sender, loopVars, runVars,
                   budget, xlVars>>

\* The steps of an output call in progress.
OutStep(t) == LockMidiOut(t) \/ DeviceClear(t) \/ LockSender(t) \/ Publish(t) \/ Light(t)

\* ------------------------------------------------------- callers (API side)
\* The update lists callers pass.
UpdateLists == {<<<<3, 2, 4>>>>, <<<<0, 0, 1>>, <<1, 1, 0>>>>}

SetButtonColorMulti(t, upd) == Call(t, "multi", upd)

\* set_button_color(x, y, color) is set_button_color_multi(&vec![(x, y, color)])
SetButtonColor(t, x, y, color) == SetButtonColorMulti(t, <<<<x, y, color>>>>)

Clear(t) == Call(t, "clear", <<>>)

\* An outside caller t (a request served by the API layer) starts an output
\* call.
ApiCallBy(t) ==
    /\ \/ Clear(t)
       \/ SetButtonColor(t, 3, 2, 4)
       \/ \E upd \in UpdateLists : SetButtonColorMulti(t, upd)
    /\ UNCHANGED <<chanVars, lockVars, dev, loopVars, runVars, faults, xlVars>>

ApiCall == ApiCallBy("api")

\* get_event_receiver(): Ok(self.event_receiver.resubscribe())
GetEventReceiver(s) ==
    /\ ~subs[s].live
    /\ \A r \in SubIds : r < s => subs[r].live
    /\ subs' = [subs EXCEPT ![s] = [live |-> TRUE, next |-> Resubscribe,
                                    created |-> Len(log)]]
    /\ UNCHANGED <<log, closed, seen, lockVars, outVars, loopVars, runVars,
                   envVars, xlVars>>

\* A holder of a receive-end polls it (an Empty or Closed result leaves
\* everything as it is).
SubRecv(s) ==
    /\ subs[s].live
    /\ LET r == TryRecv(subs[s].next) IN
         /\ r.r \in {"Ok", "Lagged"}
         /\ subs' = [subs EXCEPT ![s].next = r.next]
         /\ seen' = [seen EXCEPT ![s] =
                        Append(@, IF r.r = "Ok" THEN Recv(r.e, r.next)
                                  ELSE Lag(r.n, r.next, Len(log)))]
    /\ UNCHANGED <<log, closed, lockVars, outVars, loopVars, runVars,
                   envVars, xlVars>>

\* ------------------------------------------- initialize() and the Input Loop
\* initialize(): self.clear() ...
Initialize ==
    /\ main_pc = "idle"
    /\ Clear("main")
    /\ main_pc' = "clear"
    /\ UNCHANGED <<chanVars, lockVars, dev, in_pc, in_msg, runVars, faults, xlVars>>

\* ... .unwrap(), then tokio::spawn of the Input Loop and Ok(()).  A failed
\* clear makes unwrap panic in the calling task; nothing is spawned.
InitializeSpawn ==
    /\ main_pc = "clear"
    /\ out["main"].pc \in {"ok", "err"}
    /\ out' = [out EXCEPT !["main"] = IdleCall]
    /\ IF out["main"].pc = "ok"
       THEN main_pc' = "returned" /\ in_pc' = "start"
       ELSE main_pc' = "panicked" /\ UNCHANGED in_pc
    /\ UNCHANGED <<chanVars, lockVars, dev, in_msg, runVars, envVars, xlVars>>

\* An Input Loop that takes the output lock together with the input lock.
LoopLockMidiInAndOut ==
    /\ in_pc = "start"
    /\ midi_in = "none"
    /\ midi_out = "none"
    /\ midi_in' = "loop"
    /\ midi_out' = "loop"
    /\ in_pc' = "poll"
    /\ UNCHANGED <<chanVars, event_sender, outVars, main_pc, in_msg,
                   runVars, envVars, xlVars>>

\* let midi_in = midi_in.lock().unwrap(): taken once, before the loop, and
\* held from then on.
LoopLockMidiIn ==
    /\ in_pc = "start"
    /\ midi_in = "none"
    /\ midi_in' = "loop"
    /\ in_pc' = "poll"
    /\ UNCHANGED <<chanVars, midi_out, event_sender, outVars, main_pc, in_msg,
                   runVars, envVars, xlVars>>

\* The raw messages the device sends in this model.
LoopInputs ==
    {RawMessage(k, b) : k \in {"Press", "Release"}, b \in {GridButton(2, 0)}}
        \cup {RawMessage("Other", GridButton(0, 0))}

\* midi_in.recv_timeout(10ms) returns a message (None, a timeout, goes round
\* the loop again and changes nothing).
LoopPoll ==
    /\ in_pc = "poll"
    /\ ~closed
    /\ budget > 0
    /\ \E m \in LoopInputs :
         /\ in_msg' = m
         /\ in_pc' = "got"
         /\ budget' = budget - 1
    /\ UNCHANGED <<chanVars, lockVars, outVars, main_pc, runVars, faults, xlVars>>

\* let sender = sender.lock().unwrap()
LoopLockSender ==
    /\ in_pc = "got"
    /\ ~Locked(event_sender)
    /\ IF event_sender = "poisoned"
       THEN in_pc' = "panic" /\ midi_in' = "poisoned" /\ UNCHANGED event_sender
       ELSE in_pc' = "match" /\ event_sender' = "loop" /\ UNCHANGED midi_in
    /\ UNCHANGED <<chanVars, midi_out, outVars, main_pc, in_msg, runVars,
                   envVars, xlVars>>

\* match message {..}: at most one sender.send, whose error (no receive-end)
\* is logged and ignored; the sender guard is dropped at the end of the turn.
LoopPublish ==
    /\ in_pc = "match"
    /\ CanSend
    /\ log' = IF RxCount = 0 THEN log ELSE log \o LoopEvents(in_msg)
    /\ event_sender' = "none"
    /\ in_pc' = "poll"
    /\ in_msg' = NoMsg
    /\ UNCHANGED <<closed, subs, seen, midi_in, midi_out, outVars, main_pc,
                   runVars, envVars, xlVars>>

\* ------------------------------------------------------ ScriptRunner::run
\* The script callback run() makes for a received event.
DispatchAll(e) ==
    IF e.k = "Release"
    THEN <<ScriptCall("on_release", e.x, e.y)>>
    ELSE <<ScriptCall("on_press", e.x, e.y)>>

\* match message: Press => on_press, Release => on_release, _ => log only
Dispatch(e) ==
    IF e.k = "Press"
    THEN <<ScriptCall("on_press", e.x, e.y)>>
    ELSE IF e.k = "Release"
    THEN <<ScriptCall("on_release", e.x, e.y)>>
    ELSE <<>>

\* On lag keep polling with the same receive-end, without a restart.
OnLaggedContinue == "poll"

\* On lag give up and return the error.
OnLaggedFail == "returned_err"

\* TryRecvError::Lagged(_) => return self.run(script).await
OnLagged == "init"

\* What a script does with the Controller inside a callback: nothing, or one
\* output call (clear() in initialize, lighting the button in on_press and
\* on_release).
ScriptActs == {"none", "call"}

\* run() is called, once.
RunStart ==
    /\ run_pc = "off"
    /\ ~closed
    /\ run_pc' = "init"
    /\ UNCHANGED <<chanVars, lockVars, outVars, loopVars, run_rx, frames, rlog,
                   envVars, xlVars>>

\* script.initialize(self)
RunInitialize ==
    /\ run_pc = "init"
    /\ rlog' = Append(rlog, ScriptCall("initialize", 0, 0))
    /\ \E a \in ScriptActs :
         IF a = "call"
         THEN Clear("script") /\ run_pc' = "init_cb"
         ELSE run_pc' = "sub" /\ UNCHANGED <<out, budget>>
    /\ UNCHANGED <<chanVars, lockVars, dev, loopVars, run_rx, frames, faults, xlVars>>

\* The script's output call has returned; the callback returns to run().
RunCallbackReturn ==
    /\ run_pc \in {"init_cb", "event_cb"}
    /\ out["script"].pc \in {"ok", "err"}
    /\ out' = [out EXCEPT !["script"] = IdleCall]
    /\ run_pc' = IF run_pc = "init_cb" THEN "sub" ELSE "poll"
    /\ UNCHANGED <<chanVars, lockVars, dev, loopVars, run_rx, frames, rlog,
                   envVars, xlVars>>

\* let mut receiver = self.get_event_receiver().unwrap()
RunSubscribe ==
    /\ run_pc = "sub"
    /\ run_rx' = [live |-> TRUE, next |-> Resubscribe, created |-> Len(log)]
    /\ frames' = frames + 1
    /\ run_pc' = "poll"
    /\ UNCHANGED <<chanVars, lockVars, outVars, loopVars, rlog, envVars, xlVars>>

\* One turn of the loop: receiver.try_recv() and its match (an Empty result
\* sleeps and goes round again, changing nothing).
RunPoll ==
    /\ run_pc = "poll"
    /\ LET r == TryRecv(run_rx.next) IN
         /\ r.r # "Empty"
         /\ run_rx' = [run_rx EXCEPT !.next = r.next]
         /\ CASE r.r = "Ok" ->
                   /\ rlog' = Append(rlog, Recv(r.e, r.next)) \o Dispatch(r.e)
                   /\ \E a \in ScriptActs :
                        IF a = "call" /\ Dispatch(r.e) # <<>>
                        THEN /\ SetButtonColor("script", r.e.x, r.e.y, 1)
                             /\ run_pc' = "event_cb"
                        ELSE /\ run_pc' = "poll"
                             /\ UNCHANGED <<out, budget>>
              [] r.r = "Lagged" ->
                   /\ rlog' = Append(rlog, Lag(r.n, r.next, Len(log)))
                   /\ run_pc' = OnLagged
                   /\ UNCHANGED <<out, budget>>
              [] r.r = "Closed" ->
                   /\ rlog' = Append(rlog, Entry("closed", NoEv, 0, 0, 0))
                   /\ run_pc' = "returned_ok"
                   /\ UNCHANGED <<out, budget>>
    /\ UNCHANGED <<chanVars, lockVars, dev, loopVars, frames, faults, xlVars>>

\* --------------------------------------------------------- specifications
NoXlate ==
    /\ xl_pc = "off"
    /\ xl_msg = NoMsg
    /\ xl_ev = <<>>
    /\ xl_btn = GridButton(0, 0)

\* The Controller's own tasks and its callers: initialize() and the Input
\* Loop, output calls, receive-ends handed out and polled.
NextBus ==
    \/ \E t \in {"main", "api"} : OutStep(t)
    \/ ApiCall
    \/ \E s \in SubIds : GetEventReceiver(s)
    \/ \E s \in SubIds : SubRecv(s)
    \/ Initialize
    \/ InitializeSpawn
    \/ LoopLockMidiIn
    \/ LoopPoll
    \/ LoopLockSender
    \/ LoopPublish

\* The event bus with device failures.
InitBus == InitSys /\ faults = MaxFaults /\ NoXlate

SpecBus == InitBus /\ [][NextBus]_vars

\* The Script Runner with the Controller's own tasks, an outside caller and
\* the script's own output calls.
NextRun ==
    \/ \E t \in Callers : OutStep(t)
    \/ ApiCall
    \/ Initialize
    \/ InitializeSpawn
    \/ LoopLockMidiIn
    \/ LoopPoll
    \/ LoopLockSender
    \/ LoopPublish
    \/ RunStart
    \/ RunInitialize
    \/ RunCallbackReturn
    \/ RunSubscribe
    \/ RunPoll

InitRun == InitSys /\ faults = MaxFaults /\ NoXlate

SpecRun == InitRun /\ [][NextRun]_vars

\* The Controller keeps its Sender for as long as run() borrows it, so the
\* Closed arm of run() is not reached in SpecRun.  This specification adds
\* the drop of the Sender (with no holder of it active) to exercise that arm.
DropSender ==
    /\ ~closed
    /\ \A t \in Callers : out[t].pc \in {"idle", "ok", "err"}
    /\ in_pc = "idle"
    /\ main_pc = "idle"
    /\ closed' = TRUE
    /\ UNCHANGED <<log, subs, seen, lockVars, outVars, loopVars, runVars,
                   envVars, xlVars>>

NextClosed == NextRun \/ DropSender

SpecClosed == InitRun /\ [][NextClosed]_vars

\* Two outside callers using the output calls of one Controller at once.
NextOut ==
    \/ \E t \in {"api", "api2"} : OutStep(t)
    \/ \E t \in {"api", "api2"} : ApiCallBy(t)

InitOut == InitSys /\ faults = MaxFaults /\ NoXlate

SpecOut == InitOut /\ [][NextOut]_vars

\* ------------------------------------------- translation round trip (pure)
GridButtons == {GridButton(x, y) : x \in 0..GridMax, y \in 0..GridMax}
ControlButtons == {ControlButton(i) : i \in 0..U8Max}
RawMessages ==
    {RawMessage(k, b) : k \in {"Press", "Release"}, b \in GridButtons \cup ControlButtons}
        \cup {RawMessage("Other", GridButton(0, 0))}

InitXlate ==
    /\ InitSys
    /\ faults = 0
    /\ xl_pc = "raw"
    /\ xl_msg \in RawMessages
    /\ xl_ev = <<>>
    /\ xl_btn = GridButton(0, 0)

\* hardware -> normalized, as the Input Loop does before publishing
XlNormalize ==
    /\ xl_pc = "raw"
    /\ xl_ev' = LoopEvents(xl_msg)
    /\ xl_pc' = "norm"
    /\ UNCHANGED <<sysVars, xl_msg, xl_btn>>

\* normalized -> hardware, as set_button_color_multi does before light()
XlToButton ==
    /\ xl_pc = "norm"
    /\ xl_ev # <<>>
    /\ xl_btn' = ToButton(xl_ev[1].x, xl_ev[1].y)
    /\ xl_pc' = "back"
    /\ UNCHANGED <<sysVars, xl_msg, xl_ev>>

NextXlate == XlNormalize \/ XlToButton

SpecXlate == InitXlate /\ [][NextXlate]_vars

\* ================================================================ claims

\* ---- C1 ----------------------------------------------------------------
\* The calls clear(); r = get_event_receiver(); set_button_color(3,2,4) on a
\* Controller with no other activity have run to completion and r has been
\* drained: the channel holds ClearBoard then the LightUpdate, and r was
\* created between the two publishes.
C1_Scenario(s) ==
    /\ main_pc = "idle" /\ in_pc = "idle"
    /\ out["api"].pc = "ok"
    /\ log = <<ClearBoard, LightUpdate(<<<<3, 2, 4>>>>)>>
    /\ subs[s].live
    /\ subs[s].created = 1
    /\ subs[s].next = Len(log)

\* C1 as stated: after clear(); r = get_event_receiver();
\* set_button_color(3,2,4), r yields exactly ClearBoard and then
\* LightUpdate{[(3,2,4)]}.
C1_YieldsClearBoardThenLightUpdate ==
    \A s \in SubIds :
        C1_Scenario(s) =>
            seen[s] = <<Recv(ClearBoard, 1), Recv(LightUpdate(<<<<3, 2, 4>>>>), 2)>>

\* C1 amended: after that sequence r yields exactly one event, the
\* LightUpdate{[(3,2,4)]}; the ClearBoard published before r was created is
\* not delivered to r.
C1_YieldsOnlyLightUpdate ==
    \A s \in SubIds :
        C1_Scenario(s) => seen[s] = <<Recv(LightUpdate(<<<<3, 2, 4>>>>), 2)>>

C1_Witness == \E s \in SubIds : C1_Scenario(s)

\* ---- C2 ----------------------------------------------------------------
HasLagged(s) == \E k \in 1..Len(seen[s]) : seen[s][k].t = "lag"

\* C2: every receive-end that has not lagged has yielded exactly the events
\* published after it was created, in publish order and without gaps,
\* whatever the other receive-ends have consumed; so a Press and the later
\* Release of one coordinate are never seen swapped.
C2_InPublishOrderSinceCreation ==
    \A s \in SubIds :
        subs[s].live /\ ~HasLagged(s) =>
            /\ subs[s].next <= Len(log)
            /\ seen[s] = [k \in 1..(subs[s].next - subs[s].created) |->
                             Recv(log[subs[s].created + k], subs[s].created + k)]

\* Two receive-ends on one channel, one ahead of the other: the first has
\* yielded Press(2,1) then Release(2,1), the second only the Press so far.
C2_Witness ==
    \E s, r \in SubIds : \E p \in 1..Len(log) :
        /\ s # r
        /\ seen[s] = <<Recv(Press(2, 1), p), Recv(Release(2, 1), p + 1)>>
        /\ seen[r] = <<Recv(Press(2, 1), p)>>

\* ---- C3 ----------------------------------------------------------------
\* A lag signal at place k of a receive-end's history skipped n > 0 events,
\* moved the cursor to the oldest of the Capacity events then retained, and
\* is followed by exactly those events and their successors, in order.
LagThenWindow(s, k) ==
    /\ seen[s][k].n > 0
    /\ seen[s][k].pos = seen[s][k].tail - Capacity
    /\ \A j \in (k + 1)..Len(seen[s]) :
          (\A m \in (k + 1)..j : seen[s][m].t = "recv") =>
              seen[s][j] = Recv(log[seen[s][k].pos + (j - k)],
                                seen[s][k].pos + (j - k))

\* C3: a receive-end that is not consumed never blocks a publisher -- an
\* output call or the Input Loop that has reached its send can always
\* complete it -- and a receive-end that fell behind the channel's bound
\* gets a lag signal and then the most recent retained window only.
C3_SlowReceiverNeverBlocks ==
    /\ \A t \in Callers : out[t].pc = "send" => ENABLED Publish(t)
    /\ in_pc = "match" => ENABLED LoopPublish
    /\ \A s \in SubIds : \A k \in 1..Len(seen[s]) :
          seen[s][k].t = "lag" => LagThenWindow(s, k)

\* More events than the channel retains were published while receive-end s
\* was paused; s then got the lag signal and the retained window, and the
\* other receive-end r got every one of the events.
C3_Witness ==
    \E s, r \in SubIds :
        /\ s # r
        /\ Len(log) > Capacity
        /\ Len(seen[s]) = 1 + Capacity
        /\ seen[s][1].t = "lag"
        /\ \A k \in 2..Len(seen[s]) : seen[s][k].t = "recv"
        /\ subs[r].created = 0
        /\ Len(seen[r]) = Len(log)
        /\ ~HasLagged(r)

\* ---- C4 ----------------------------------------------------------------
\* The device write set_button_color_multi makes for one update.
WriteFor(u) ==
    [op |-> "light", button |-> (IF u[2] = 0 THEN ControlButton(u[1])
                                 ELSE GridButton(u[1], u[2] - 1)),
     color |-> Palette(u[3])]

\* C4: a call of set_button_color_multi(updates) publishes nothing before it
\* holds the sender, then exactly one LightUpdate carrying the whole list,
\* before its first device write; it writes the updates one by one in list
\* order, and has written all of them when it returns Ok.
C4_OneLightUpdateThenWritesInOrder ==
    \A t \in Callers :
        out[t].op = "multi" =>
            /\ out[t].pc \in {"lock_out", "lock_snd", "send"} =>
                  out[t].pub = <<>> /\ out[t].wr = <<>>
            /\ out[t].pc \in {"light", "ok", "err"} =>
                  /\ out[t].pub = <<LightUpdate(out[t].upd)>>
                  /\ \E k \in 1..Len(log) : log[k] = LightUpdate(out[t].upd)
            /\ Len(out[t].wr) <= Len(out[t].upd)
            /\ out[t].wr = [k \in 1..Len(out[t].wr) |-> WriteFor(out[t].upd[k])]
            /\ out[t].pc = "ok" => Len(out[t].wr) = Len(out[t].upd)

\* set_button_color_multi([(0,0,1),(1,1,0)]) has returned Ok: one event with
\* both updates, then WHITE on control button 0 and BLACK on grid (1,0).
C4_Witness ==
    /\ out["api"].pc = "ok"
    /\ out["api"].upd = <<<<0, 0, 1>>, <<1, 1, 0>>>>
    /\ out["api"].pub = <<LightUpdate(<<<<0, 0, 1>>, <<1, 1, 0>>>>)>>
    /\ out["api"].wr = <<[op |-> "light", button |-> ControlButton(0), color |-> "WHITE"],
                         [op |-> "light", button |-> GridButton(1, 0), color |-> "BLACK"]>>

\* ---- C5 ----------------------------------------------------------------
IsEventCall(en) == en.t = "call" /\ en.e.k \in {"on_press", "on_release"}

\* The callback a received event must cause, if any.
CallbackFor(e) ==
    IF e.k = "Press" THEN <<Entry("call", Ev("on_press", e.x, e.y, <<>>), 0, 0, 0)>>
    ELSE IF e.k = "Release"
    THEN <<Entry("call", Ev("on_release", e.x, e.y, <<>>), 0, 0, 0)>>
    ELSE <<>>

\* Place of the last script.initialize call in run()'s history (0 if none).
LastInitialize ==
    LET I == {k \in 1..Len(rlog) : rlog[k] = ScriptCall("initialize", 0, 0)}
    IN IF I = {} THEN 0 ELSE CHOOSE k \in I : \A m \in I : m <= k

\* C5: in run()'s history every received Press{x,y} is directly followed by
\* on_press(x,y), every received Release{x,y} by on_release(x,y), every
\* on_press/on_release directly follows the receipt of its event, and a
\* received ClearBoard or LightUpdate is followed by no callback; what the
\* running frame has received is the bus's sequence since it subscribed.
C5_CallbacksMirrorPressRelease ==
    /\ \A k \in 1..Len(rlog) :
          /\ rlog[k].t = "recv" /\ CallbackFor(rlog[k].e) # <<>> =>
                k < Len(rlog) /\ rlog[k + 1] = CallbackFor(rlog[k].e)[1]
          /\ rlog[k].t = "recv" /\ CallbackFor(rlog[k].e) = <<>> =>
                k = Len(rlog) \/ ~IsEventCall(rlog[k + 1])
          /\ IsEventCall(rlog[k]) =>
                /\ k > 1
                /\ rlog[k - 1].t = "recv"
                /\ CallbackFor(rlog[k - 1].e) = <<rlog[k]>>
    /\ run_pc \in {"poll", "event_cb"} =>
          LET R == SelectSeq(SubSeq(rlog, LastInitialize + 1, Len(rlog)),
                             LAMBDA en : en.t = "recv")
          IN R = [k \in 1..(run_rx.next - run_rx.created) |->
                     Recv(log[run_rx.created + k], run_rx.created + k)]

\* Press(2,1) then Release(2,1) went through the bus: on_press(2,1) then
\* on_release(2,1), nothing in between.
C5_Witness ==
    \E k \in 1..Len(rlog) : \E p \in 1..Len(log) :
        /\ k + 3 <= Len(rlog)
        /\ SubSeq(rlog, k, k + 3) =
              <<Recv(Press(2, 1), p), ScriptCall("on_press", 2, 1),
                Recv(Release(2, 1), p + 1), ScriptCall("on_release", 2, 1)>>

\* ---- C6 ----------------------------------------------------------------
IsInitialize(en) == en.t = "call" /\ en.e.k = "initialize"
IsLag(en) == en.t = "lag"
NumInitialize == Len(SelectSeq(rlog, IsInitialize))
NumLag == Len(SelectSeq(rlog, IsLag))

\* C6: script.initialize has been called once for the first entry of run()
\* and once more for every lag signal received -- it is the very next thing
\* run() does after a lag signal, and it is called at no other time.
C6_InitializeOncePerLag ==
    /\ run_pc = "off" => rlog = <<>>
    /\ run_pc = "init" => NumInitialize = NumLag
    /\ run_pc \notin {"off", "init"} =>
          NumInitialize = 1 + NumLag
    /\ \A k \in 1..Len(rlog) :
          /\ IsLag(rlog[k]) /\ k < Len(rlog) => IsInitialize(rlog[k + 1])
          /\ IsInitialize(rlog[k]) => k = 1 \/ IsLag(rlog[k - 1])

\* run() got a lag signal, called initialize again and is polling again.
C6_Witness ==
    /\ run_pc = "poll"
    /\ NumLag = 1
    /\ NumInitialize = 2

\* ---- C7 ----------------------------------------------------------------
\* C7 as stated: once run() has restarted after a lag signal and drained its
\* receive-end, every Press/Release that the channel still retained for the
\* lagging receive-end when the lag was signalled (the events from the moved
\* cursor up to the tail) has been dispatched to the script after that
\* signal.
C7_RetainedEventsDispatchedAfterRestart ==
    \A k \in 1..Len(rlog) :
        (/\ IsLag(rlog[k])
         /\ run_pc = "poll"
         /\ TryRecv(run_rx.next).r = "Empty") =>
            \A j \in (rlog[k].pos + 1)..rlog[k].tail :
                log[j].k \in {"Press", "Release"} =>
                    \E m \in (k + 1)..Len(rlog) : <<rlog[m]>> = CallbackFor(log[j])

\* C7 amended: a lag signal costs the script the N skipped events and also
\* every event the channel still retained when it was signalled: run()
\* restarts with a fresh receive-end, so nothing sent before the lag signal
\* is received (or dispatched) after it.
C7_NothingSentBeforeLagIsReceivedAfter ==
    \A k \in 1..Len(rlog) :
        IsLag(rlog[k]) =>
            \A m \in (k + 1)..Len(rlog) :
                /\ rlog[m].t = "recv" => rlog[m].pos > rlog[k].tail
                /\ IsEventCall(rlog[m]) => rlog[m - 1].pos > rlog[k].tail

\* run() lagged while a Press or Release was still retained for it, has
\* restarted and drained its new receive-end, and no callback was made for
\* the retained event.
C7_Witness ==
    \E k \in 1..Len(rlog) :
        /\ IsLag(rlog[k])
        /\ run_pc = "poll"
        /\ TryRecv(run_rx.next).r = "Empty"
        /\ \E j \in (rlog[k].pos + 1)..rlog[k].tail :
              log[j].k \in {"Press", "Release"}
        /\ \A m \in (k + 1)..Len(rlog) : ~IsEventCall(rlog[m])

\* ---- C8 ----------------------------------------------------------------
\* C8: a closed result is the last thing in run()'s history and run() has
\* then returned Ok, whatever restarts came before; run() returns for no
\* other reason, and never with an error.
C8_ClosedReturnsOk ==
    /\ \A k \in 1..Len(rlog) :
          rlog[k].t = "closed" => k = Len(rlog) /\ run_pc = "returned_ok"
    /\ run_pc = "returned_ok" =>
          Len(rlog) > 0 /\ rlog[Len(rlog)].t = "closed"
    /\ run_pc # "returned_err"

\* run() was restarted by a lag signal, then found the channel closed in the
\* nested frame and returned Ok.
C8_Witness ==
    /\ run_pc = "returned_ok"
    /\ frames = 2
    /\ NumLag = 1

\* ---- C9 ----------------------------------------------------------------
\* C9: a grid button (x, y) translated by the Input Loop and translated back
\* by set_button_color_multi is the grid button (x, y) again, and the
\* coordinate in between is (x, y + 1).
C9_GridRoundTrip ==
    xl_pc = "back" /\ xl_msg.button.kind = "Grid" =>
        /\ xl_ev[1].x = xl_msg.button.x
        /\ xl_ev[1].y = xl_msg.button.y + 1
        /\ xl_btn = xl_msg.button

C9_Witness ==
    /\ xl_pc = "back"
    /\ xl_msg.button = GridButton(GridMax, GridMax)
    /\ xl_btn = GridButton(GridMax, GridMax)

\* ---- C10 ---------------------------------------------------------------
\* C10 as stated: every button the device reports, control buttons included,
\* is mapped back to itself by the output direction.
C10_OutputInvertsInput ==
    xl_pc = "back" => xl_btn = xl_msg.button

\* C10 amended: the output direction maps the published coordinate back to
\* the same button for grid buttons and for control buttons 0..7; the
\* coordinate (8, i - 7) published for a control button i >= 8 is mapped to
\* grid button (8, i - 8), not to control button i.
C10_OutputInvertsInputUpToIndex7 ==
    xl_pc = "back" =>
        IF xl_msg.button.kind = "Control" /\ xl_msg.button.index >= 8
        THEN /\ xl_ev[1].x = 8 /\ xl_ev[1].y = xl_msg.button.index - 7
             /\ xl_btn = GridButton(8, xl_msg.button.index - 8)
        ELSE xl_btn = xl_msg.button

\* Both cases: control button 3 comes back as control button 3, control
\* button 8 as grid button (8, 0).
C10_Witness ==
    /\ xl_pc = "back"
    /\ \/ xl_msg.button = ControlButton(3) /\ xl_btn = ControlButton(3)
       \/ xl_msg.button = ControlButton(8) /\ xl_btn = GridButton(8, 0)

\* ---- C11 ---------------------------------------------------------------
\* C11: for every control-button index i of 0..255 the Input Loop publishes
\* exactly one event, of the kind of the raw message (Press for a press,
\* Release for a release), at (i, 0) when i <= 7 and at (8, i - 7) when
\* i >= 8; both coordinates are values of u8, so the subtraction never left
\* the type's range and no index aborts the mapping.
C11_ControlMappingTotal ==
    xl_pc \in {"norm", "back"} /\ xl_msg.button.kind = "Control" =>
        /\ Len(xl_ev) = 1
        /\ xl_ev[1].k = xl_msg.kind
        /\ <<xl_ev[1].x, xl_ev[1].y>> =
              IF xl_msg.button.index <= 7
              THEN <<xl_msg.button.index, 0>>
              ELSE <<8, xl_msg.button.index - 7>>
        /\ xl_ev[1].x \in 0..U8Max
        /\ xl_ev[1].y \in 0..U8Max

\* The two ends of the second arm and the last index of the first, for a
\* release: 255 -> (8, 248), and for a press: 8 -> (8, 1), 7 -> (7, 0).
C11_Witness ==
    /\ xl_pc = "norm"
    /\ \/ xl_msg = RawMessage("Release", ControlButton(U8Max))
          /\ xl_ev = <<Release(8, U8Max - 7)>>
       \/ xl_msg = RawMessage("Press", ControlButton(8)) /\ xl_ev = <<Press(8, 1)>>
       \/ xl_msg = RawMessage("Press", ControlButton(7)) /\ xl_ev = <<Press(7, 0)>>

\* ---- C12 ---------------------------------------------------------------
\* The buttons of the device: every control index, and the grid, whose
\* columns lie left of the column the Input Loop gives to the control
\* buttons with index >= 8.
DeviceButtons ==
    {b \in GridButtons : b.x < NormalizeControl(U8Max)[1]} \cup ControlButtons

\* C12: the coordinate published for a button of the device is published
\* for no other button of the device (grid or control); a grid button is
\* published with y >= 1 and a control button with index <= 7 with y = 0.
C12_NormalizedSpaceCollisionFree ==
    xl_pc \in {"norm", "back"} /\ xl_ev # <<>> /\ xl_msg.button \in DeviceButtons =>
        /\ \A b \in DeviceButtons :
              Normalize(b) = <<xl_ev[1].x, xl_ev[1].y>> => b = xl_msg.button
        /\ xl_msg.button.kind = "Grid" => xl_ev[1].y >= 1
        /\ xl_msg.button.kind = "Control" /\ xl_msg.button.index <= 7 =>
              xl_ev[1].y = 0

\* The closest pair: grid button (7, 0) is published at (7, 1), next to
\* control button 7 at (7, 0) and control button 8 at (8, 1).
C12_Witness ==
    /\ xl_pc = "norm"
    /\ xl_msg.button = GridButton(7, 0)
    /\ xl_msg.button \in DeviceButtons
    /\ xl_ev[1].x = 7 /\ xl_ev[1].y = 1
    /\ Normalize(ControlButton(7)) = <<7, 0>>
    /\ Normalize(ControlButton(8)) = <<8, 1>>

\* ---- C13 ---------------------------------------------------------------
\* C13 as stated: the task that calls initialize() is never aborted by it --
\* a failed device clear comes back to the caller as an error value -- and
\* once initialize() has returned Ok the Input Loop has been started.
C13_InitializeReturnsDeviceError ==
    /\ main_pc # "panicked"
    /\ main_pc = "returned" => in_pc # "idle"

\* ---- C14 ---------------------------------------------------------------
\* The holder of the event-sender lock waits for nothing: its send and the
\* release that follows can be taken at once.
SenderHolderCanStep ==
    /\ \A t \in Callers : event_sender = t => out[t].pc = "send" /\ ENABLED Publish(t)
    /\ event_sender = "loop" => in_pc = "match" /\ ENABLED LoopPublish

\* The holder of the output lock is inside its call and can take its next
\* step, unless that step is the event-sender lock and another task holds it.
OutHolderCanStep ==
    \A t \in Callers :
        midi_out = t =>
            /\ out[t].pc \in {"io", "lock_snd", "send", "light"}
            /\ \/ ENABLED OutStep(t)
               \/ out[t].pc = "lock_snd" /\ Locked(event_sender) /\ event_sender # t

\* C14: no task holds the input lock and the output lock together; whoever
\* holds the event-sender lock took its device lock first (output calls the
\* output lock, the Input Loop the input lock) and a task asking for a device
\* lock holds no lock; and no circular wait exists: the holder of the
\* event-sender lock is never waiting, and the holder of the output lock
\* waits at most for the event-sender lock.
C14_NoLockHazard ==
    /\ Locked(midi_in) /\ Locked(midi_out) => midi_in # midi_out
    /\ \A t \in Callers : event_sender = t => midi_out = t
    /\ event_sender = "loop" => midi_in = "loop"
    /\ \A t \in Callers :
          out[t].pc = "lock_out" => midi_out # t /\ event_sender # t
    /\ in_pc = "start" => midi_in # "loop" /\ event_sender # "loop"
    /\ SenderHolderCanStep
    /\ OutHolderCanStep

\* All three locks are held: the Input Loop holds the input lock and the
\* event-sender lock, and an output call holding the output lock waits for
\* the event-sender lock.
C14_Witness ==
    /\ midi_in = "loop"
    /\ event_sender = "loop"
    /\ midi_out = "api"
    /\ out["api"].pc = "lock_snd"

\* ---- C15 ---------------------------------------------------------------
\* C15 as stated: a device lock is held only while its holder is inside the
\* call that does the device I/O -- an output call that has returned holds no
\* output lock, and the Input Loop holds the input lock only inside a read:
\* not at the top of its loop between two reads, and not while it translates
\* and publishes what it read.
C15_DeviceLockOnlyDuringIO ==
    /\ \A t \in Callers : out[t].pc \in {"idle", "ok", "err"} => midi_out # t
    /\ in_pc \in {"poll", "got", "match"} => midi_in # "loop"

\* ---- C16 ---------------------------------------------------------------
\* The normalized coordinate the Input Loop must publish for a button.
C16_Coordinate(b) ==
    IF b.kind = "Grid" THEN <<b.x, b.y + 1>>
    ELSE IF b.index <= 7 THEN <<b.index, 0>>
    ELSE <<8, b.index - 7>>

\* What the bus must gain from one raw message.
C16_Expected(m) ==
    IF m.kind \in {"Press", "Release"}
    THEN <<Ev(m.kind, C16_Coordinate(m.button)[1], C16_Coordinate(m.button)[2], <<>>)>>
    ELSE <<>>

\* C16: the Input Loop, once started, is always in its loop (it never ends
\* or aborts); the step that handles a raw message appends to the bus exactly
\* one event for a Press or Release -- of that kind, at the translated
\* coordinate -- and nothing for any other kind, and goes back to polling;
\* no other step of the loop publishes anything.
C16_OneEventPerPressRelease ==
    /\ [](in_pc \in {"idle", "start", "poll", "got", "match"})
    /\ [][/\ in_pc # "idle" => in_pc' # "idle"
          /\ in_pc = "match" /\ in_pc' # "match" =>
                /\ log' = log \o C16_Expected(in_msg)
                /\ in_pc' = "poll"
          /\ in_pc \in {"start", "poll", "got"} /\ in_pc' # in_pc => log' = log]_vars

\* The loop has published a Press for a raw press and is about to discard a
\* raw message of another kind.
C16_Witness ==
    /\ in_pc = "match"
    /\ in_msg.kind = "Other"
    /\ Len(log) > 0
    /\ log[Len(log)] = Press(2, 1)

\* ---- C17 ---------------------------------------------------------------
\* No receive-end has been handed out: nobody is listening to the bus.
NoSubscriber == (\A s \in SubIds : ~subs[s].live) /\ frames = 0

\* C17: whether or not anybody is listening, a publish is never fatal at any
\* publish site: no output call and no Input Loop is ever aborted and no lock
\* is left poisoned; an output call that has reached its send goes on (clear()
\* returns Ok, set_button_color_multi continues with its device writes) and
\* the Input Loop goes back to polling.
C17_PublishNeverFatal ==
    /\ [](/\ \A t \in Callers : out[t].pc # "panic"
          /\ in_pc # "panic"
          /\ "poisoned" \notin {midi_in, midi_out, event_sender})
    /\ [][/\ \A t \in Callers :
                out[t].pc = "send" /\ out'[t].pc # "send" =>
                    out'[t].pc = IF out[t].op = "clear" THEN "ok" ELSE "light"
          /\ in_pc = "match" /\ in_pc' # "match" => in_pc' = "poll"]_vars

\* With nobody listening, initialize()'s clear, an outside output call and
\* the Input Loop have each published, and all of them went on normally.
C17_Witness ==
    /\ NoSubscriber
    /\ main_pc = "returned"
    /\ out["api"].pc = "ok"
    /\ out["api"].pub # <<>>
    /\ in_pc = "poll"
    /\ Len(log) = 3
    /\ log[3].k \in {"Press", "Release"}

\* ---- C18 ---------------------------------------------------------------
\* C18: an output call that returned an error holds no lock.  If it was
\* set_button_color_multi(updates) and the write of its k-th update failed,
\* its single LightUpdate with the whole list is on the bus and exactly the
\* first k - 1 updates were written to the device, in order, and none of the
\* later ones.  If it was clear(), it wrote nothing and published nothing.
\* A caller whose call failed can start its next call.
C18_FailedWriteLeavesPrefix ==
    \A t \in Callers :
        out[t].pc = "err" =>
            /\ midi_out # t
            /\ event_sender # t
            /\ out[t].op = "multi" =>
                  /\ out[t].pub = <<LightUpdate(out[t].upd)>>
                  /\ \E k \in 1..Len(log) : log[k] = LightUpdate(out[t].upd)
                  /\ Len(out[t].wr) = out[t].i
                  /\ out[t].i < Len(out[t].upd)
                  /\ out[t].wr = [k \in 1..out[t].i |-> WriteFor(out[t].upd[k])]
            /\ out[t].op = "clear" =>
                  /\ out[t].pub = <<>>
                  /\ out[t].wr = <<>>
            /\ budget > 0 /\ t = "api" => ENABLED Clear(t)

\* The second write of set_button_color_multi([(0,0,1),(1,1,0)]) failed: the
\* event is on the bus, control button 0 is WHITE, grid (1,0) was not
\* written, and the output lock is free.
C18_Witness ==
    /\ out["api"].pc = "err"
    /\ out["api"].upd = <<<<0, 0, 1>>, <<1, 1, 0>>>>
    /\ out["api"].wr = <<[op |-> "light", button |-> ControlButton(0), color |-> "WHITE"]>>
    /\ out["api"].pub = <<LightUpdate(<<<<0, 0, 1>>, <<1, 1, 0>>>>)>>
    /\ midi_out = "none"

\* ---- C19 ---------------------------------------------------------------
\* C19: from the moment run() is entered the channel is open and has a
\* receive-end (the Controller's own, besides run()'s); a receive attempt of
\* run() never reports Closed, run()'s history holds no closed result, and
\* run() has not returned, with Ok or with an error.
C19_RunNeverSeesClosed ==
    run_pc # "off" =>
        /\ ~closed
        /\ RxCount >= 1
        /\ run_rx.live => TryRecv(run_rx.next).r # "Closed"
        /\ \A k \in 1..Len(rlog) : rlog[k].t # "closed"
        /\ run_pc \in {"init", "init_cb", "sub", "poll", "event_cb"}

\* run() has been through a lag and a restart, has read everything sent, and
\* is still polling an open, empty channel.
C19_Witness ==
    /\ run_pc = "poll"
    /\ frames = 2
    /\ Len(log) > 0
    /\ TryRecv(run_rx.next).r = "Empty"

\* ---- C20 ---------------------------------------------------------------
\* The ClearBoard and LightUpdate events of the bus, in bus order.
OutLog == SelectSeq(log, LAMBDA e : e.k \in {"ClearBoard", "LightUpdate"})

\* The device operations one output event stands for.
WritesOf(e) ==
    IF e.k = "ClearBoard" THEN <<ClearOp>>
    ELSE [k \in 1..Len(e.u) |-> WriteFor(e.u[k])]

\* The device operations of a sequence of output events, each event's
\* operations as one block, in the order of the events.
RECURSIVE Flat(_)
Flat(evs) == IF evs = <<>> THEN <<>> ELSE WritesOf(Head(evs)) \o Flat(Tail(evs))

\* d is made of one block per event of evs, in order, each block a prefix of
\* the event's operations (a call that failed wrote only a prefix), possibly
\* followed by the device clear of a clear() that has not published yet.
RECURSIVE Serial(_, _)
Serial(evs, d) ==
    IF evs = <<>> THEN d \in {<<>>, <<ClearOp>>}
    ELSE \E n \in 0..Len(WritesOf(Head(evs))) :
            /\ n <= Len(d)
            /\ SubSeq(d, 1, n) = SubSeq(WritesOf(Head(evs)), 1, n)
            /\ Serial(Tail(evs), SubSeq(d, n + 1, Len(d)))

\* The output call that holds the output lock, if any, and how far it is.
InFlight(t) == midi_out = t /\ out[t].pc \in {"io", "lock_snd", "send", "light"}

\* C20: output calls take effect as whole units.  The device has been given,
\* for each ClearBoard and LightUpdate on the bus and in the order of the bus,
\* the operations of that event as one uninterrupted block -- so the writes of
\* two set_button_color_multi calls never interleave.  As long as no device
\* failure has occurred the blocks are complete, except for the one call that
\* holds the output lock: a clear() between its device clear and its publish,
\* or a set_button_color_multi between its publish and its last write.
C20_OutputCallsSerialized ==
    /\ Serial(OutLog, dev)
    /\ faults = MaxFaults =>
          /\ midi_out = "none" => dev = Flat(OutLog)
          /\ \A t \in Callers :
                InFlight(t) =>
                    IF out[t].op = "clear"
                    THEN dev = Flat(OutLog) \o out[t].wr
                    ELSE IF out[t].pc = "light"
                    THEN /\ OutLog # <<>>
                         /\ OutLog[Len(OutLog)] = LightUpdate(out[t].upd)
                         /\ dev = Flat(SubSeq(OutLog, 1, Len(OutLog) - 1)) \o out[t].wr
                    ELSE dev = Flat(OutLog)

\* Two set_button_color_multi calls at once: one caller is between the two
\* writes of its call while the other, whose earlier call is complete on the
\* bus and on the device, waits for the output lock with its next one.
C20_Witness ==
    /\ out["api"].pc = "light"
    /\ out["api"].upd = <<<<0, 0, 1>>, <<1, 1, 0>>>>
    /\ out["api"].i = 1
    /\ midi_out = "api"
    /\ out["api2"].pc = "lock_out"
    /\ out["api2"].op = "multi"
    /\ Len(OutLog) = 2
    /\ Len(dev) = 2

====
